---- MODULE Spec2Model ----
(***************************************************************************)
(* A model of crypto-nacl's public-key box (src/pkbox.rs) and of the       *)
(* secretbox it delegates to.                                              *)
(*                                                                         *)
(* Byte buffers are sequences over 0..255 and keep the lengths of the      *)
(* program (32-byte keys, 24-byte nonces, 16-byte authenticators).  The    *)
(* primitives of the external crates (Curve25519, HSalsa20, XSalsa20,      *)
(* Poly1305, SHA-512/256, OsRng) are replaced by small arithmetic          *)
(* functions that keep the structure the composition relies on:            *)
(*   - curve25519 is scalar multiplication in a cyclic group of prime      *)
(*     order (the integers mod GroupPrime under addition), with the        *)
(*     scalar clamped and the point's top bit masked;                      *)
(*   - hsalsa20, the keystream and the hash are deterministic mixing       *)
(*     functions of all their inputs;                                      *)
(*   - the authenticator is a polynomial evaluated at r modulo a prime,    *)
(*     plus a pad s, with (r, s) the two halves of the one-time key.       *)
(* Every call runs as a sequence of steps of one thread, on buffers the    *)
(* thread owns; the only object shared between threads is the static       *)
(* ZERO_HSALSA_NONCE.                                                      *)
(***************************************************************************)
EXTENDS Integers, Sequences, FiniteSets, TLC

VARIABLES
    ZERO_HSALSA_NONCE,  \* the static of pkbox.rs:31
    nthreads,           \* how many threads run calls (fixed by Init)
    pc,                 \* pc[t]: where thread t is in its current call
    call,               \* call[t]: the function called and its arguments
    loc,                \* loc[t]: the call's local buffers
    ret,                \* ret[t]: what the call returned
    trace,              \* trace[t]: the computations the call has done, in order
    prov                \* prov[t]: where the call's ciphertext or key came from

vars == <<ZERO_HSALSA_NONCE, nthreads, pc, call, loc, ret, trace, prov>>

----------------------------------------------------------------------------
(* Bounds of the model *)

\* Messages have 0..MaxMsgLen bytes.
MaxMsgLen == 2

\* Secret keys, entropy outputs and symmetric keys are drawn from this many seeds.
NumSeeds == 2

----------------------------------------------------------------------------
(* Sizes *)

crypto_box_PUBLICKEYBYTES == 32

crypto_box_SECRETKEYBYTES == 32

crypto_box_NONCEBYTES == 24

\* (mutant) the overhead documented one byte short
crypto_box_OVERHEAD_short == 16 - 1

crypto_box_OVERHEAD == 16

crypto_secretbox_KEYBYTES == 32

crypto_secretbox_NONCEBYTES == 24

crypto_secretbox_OVERHEAD == 16

----------------------------------------------------------------------------
(* Bytes and buffers *)

\* A buffer of len bytes determined by a seed (the inputs of the model).
Fill(len, seed) ==
    [i \in 1..len |-> (seed * 37 + i * 11) % 256]

RECURSIVE XorBits(_, _, _)
XorBits(a, b, n) ==
    IF n = 0 THEN 0
    ELSE (((a % 2) + (b % 2)) % 2) + 2 * XorBits(a \div 2, b \div 2, n - 1)

\* a ^ b on bytes
Xor(a, b) ==
    XorBits(a, b, 8)

\* The little-endian value of buf[i..Len(buf)], reduced mod m.
RECURSIVE LeMod(_, _, _)
LeMod(buf, i, m) ==
    IF i > Len(buf) THEN 0
    ELSE (buf[i] + 256 * LeMod(buf, i + 1, m)) % m

RECURSIVE SumBytes(_, _)
SumBytes(buf, n) ==
    IF n = 0 THEN 0 ELSE (SumBytes(buf, n - 1) + buf[n]) % 256

----------------------------------------------------------------------------
(* The primitives of the external crates *)

\* The order of the toy group standing in for Curve25519's.
GroupPrime == 251

\* The toy prime standing in for Poly1305's 2^130 - 5.
MacPrime == 13

\* The scalar clamping of Curve25519: the low three bits of the first byte are
\* cleared, the top bit of the last byte is cleared and its bit 6 is set.
ClampScalar(sk) ==
    [i \in 1..Len(sk) |->
        IF i = 1 THEN sk[i] - (sk[i] % 8)
        ELSE IF i = Len(sk) THEN (sk[i] % 64) + 64
        ELSE sk[i]]

\* A group element as 32 bytes (little endian).
EncodePoint(x) ==
    [i \in 1..crypto_box_PUBLICKEYBYTES |-> IF i = 1 THEN x ELSE 0]

\* The group element 32 bytes stand for: the top bit is masked.
DecodePoint(pk) ==
    LET masked == [pk EXCEPT ![Len(pk)] = pk[Len(pk)] % 128]
    IN  LeMod(masked, 1, GroupPrime)

\* crypto::curve25519::curve25519(n, p): the scalar multiple n * p.
curve25519(n, p) ==
    EncodePoint((LeMod(ClampScalar(n), 1, GroupPrime) * DecodePoint(p)) % GroupPrime)

\* crypto::curve25519::curve25519_base(x): the scalar multiple of the base point 9.
curve25519_base(x) ==
    curve25519(x, EncodePoint(9))

\* crypto::salsa20::hsalsa20(key, nonce, out): 32 output bytes mixed from the
\* 32 key bytes and the 16 nonce bytes.
hsalsa20(key, nonce) ==
    LET sum == SumBytes(key, 32)
    IN  [i \in 1..32 |->
            (key[i] * 3 + key[33 - i] + sum * 7
             + nonce[((i - 1) % 16) + 1] * 5 + i * 13 + 101) % 256]

\* Sha512Trunc256: input(buf) then result(out), 32 output bytes.
Sha512Trunc256(buf) ==
    LET sum == SumBytes(buf, Len(buf))
    IN  [i \in 1..32 |->
            (sum * 31 + buf[((i - 1) % Len(buf)) + 1] * 7 + i * 17 + 106) % 256]

\* OsRng::fill_bytes on a 32-byte buffer: what the entropy source may deliver.
OsRngOutputs ==
    {Fill(32, 40 + s) : s \in 1..NumSeeds}

----------------------------------------------------------------------------
(* secretbox: the symmetric construction crypto_box delegates to *)

\* The keystream of (key, nonce): len bytes, the first 32 of them the one-time
\* authenticator key.  The key and the first 16 nonce bytes give a subkey
\* (HSalsa20), the subkey and the last 8 nonce bytes give the stream.
Keystream(key, nonce, len) ==
    LET sub == hsalsa20(key, SubSeq(nonce, 1, 16))
    IN  [i \in 1..len |->
            (sub[((i - 1) % 32) + 1] * 9 + nonce[17 + ((i - 1) % 8)] * 3
             + i * 29 + ((i - 1) \div 32) * 7) % 256]

\* The clamping of the authenticator's r: the top four bits of bytes 3, 7, 11
\* and 15 and the low two bits of bytes 4, 8 and 12 (counted from 0) are cleared.
ClampR(r) ==
    [i \in 1..16 |->
        IF i \in {4, 8, 12, 16} THEN r[i] % 16
        ELSE IF i \in {5, 9, 13} THEN r[i] - (r[i] % 4)
        ELSE r[i]]

\* The polynomial of the payload bytes at r, each byte with the high bit
\* appended, modulo the prime.
RECURSIVE PolyEval(_, _, _)
PolyEval(payload, n, r) ==
    IF n = 0 THEN 0
    ELSE ((PolyEval(payload, n - 1, r) + payload[n] + 256) * r) % MacPrime

\* s + h as a 16-byte little-endian number (mod 2^128).
RECURSIVE AddLe(_, _, _)
AddLe(s, i, carry) ==
    IF i > Len(s) THEN <<>>
    ELSE <<(s[i] + carry) % 256>> \o AddLe(s, i + 1, (s[i] + carry) \div 256)

\* The one-time authenticator over payload under the 32-byte key otk = r || s.
Poly1305(otk, payload) ==
    LET r == LeMod(ClampR(SubSeq(otk, 1, 16)), 1, MacPrime)
    IN  AddLe(SubSeq(otk, 17, 32), 1, PolyEval(payload, Len(payload), r))

\* (mutant) the comparison stops after the first byte
ConstantTimeEq_firstbyte(a, b) ==
    a[1] = b[1]

\* The constant-time comparison of two tags: all 16 bytes are compared.
ConstantTimeEq(a, b) ==
    /\ Len(a) = Len(b)
    /\ \A i \in 1..Len(a) : a[i] = b[i]

\* data XOR keystream, the keystream taken from offset 32 onward.
XorStream(data, ks) ==
    [i \in 1..Len(data) |-> Xor(data[i], ks[32 + i])]

\* crypto_secretbox(msg, nonce, key): tag || encrypted payload.
crypto_secretbox(msg, nonce, key) ==
    LET ks == Keystream(key, nonce, 32 + Len(msg))
        c  == XorStream(msg, ks)
    IN  Poly1305(SubSeq(ks, 1, 32), c) \o c

Ok(v) ==
    [kind |-> "Ok", val |-> v]

Err ==
    [kind |-> "Err", val |-> <<>>]

\* crypto_secretbox_open(ciphertext, nonce, key): Ok(plaintext) or Err.
crypto_secretbox_open(ciphertext, nonce, key) ==
    IF Len(ciphertext) < crypto_secretbox_OVERHEAD THEN Err
    ELSE LET payload == SubSeq(ciphertext, crypto_secretbox_OVERHEAD + 1, Len(ciphertext))
             ks      == Keystream(key, nonce, 32 + Len(payload))
         IN  IF ConstantTimeEq(Poly1305(SubSeq(ks, 1, 32), payload),
                               SubSeq(ciphertext, 1, crypto_secretbox_OVERHEAD))
             THEN Ok(XorStream(payload, ks))
             ELSE Err

----------------------------------------------------------------------------
(* pkbox.rs: the pieces of the four functions *)

\* assert!(sk.len() == crypto_box_PUBLICKEYBYTES) of crypto_box_keypair
KeypairLenOk(sk) ==
    Len(sk) = crypto_box_PUBLICKEYBYTES

\* (mutant) the entropy is used as it comes, without the hash
KeypairSecret_raw(random) ==
    random

\* sh.input(sk); sh.result(sk): the buffer after the entropy is extracted
KeypairSecret(random) ==
    Sha512Trunc256(random)

\* (mutant) only the public key's length is asserted
BeforenmLenOk_pkonly(pk, sk) ==
    Len(pk) = crypto_box_PUBLICKEYBYTES

\* the two assert!s of crypto_box_beforenm
BeforenmLenOk(pk, sk) ==
    /\ Len(pk) = crypto_box_PUBLICKEYBYTES
    /\ Len(sk) = crypto_box_SECRETKEYBYTES

\* (mutant) the arguments of curve25519 in the wrong order
BeforenmCurveKey_swapped(pk, sk) ==
    curve25519(pk, sk)

\* let curve_key = curve25519(sk, pk)
BeforenmCurveKey(pk, sk) ==
    curve25519(sk, pk)

\* hsalsa20(&curve_key, &ZERO_HSALSA_NONCE, &mut key)
BeforenmKey(curve_key, zero_nonce) ==
    hsalsa20(curve_key, zero_nonce)

\* (mutant) the output buffer is one static shared by all threads
StoreKey_shared(l, t, k) ==
    [u \in DOMAIN l |-> [l[u] EXCEPT !.key = k]]

\* let mut key = [0u8; 32]: the output buffer is a local of the calling
\* thread; l is loc, t the thread and k the bytes hsalsa20 writes.
StoreKey(l, t, k) ==
    [l EXCEPT ![t].key = k]

\* (mutant) the nonce is measured against the key length
BoxNonceOk_keybytes(nonce) ==
    Len(nonce) = crypto_box_SECRETKEYBYTES

\* assert!(nonce.len() == crypto_box_NONCEBYTES) of crypto_box, crypto_box_open
BoxNonceOk(nonce) ==
    Len(nonce) = crypto_box_NONCEBYTES

\* (mutant) the long-term secret key is handed on instead of the derived key
BoxSecretboxKey_sk(key, sk) ==
    sk

\* crypto_secretbox(msg, nonce, &key): the key crypto_box hands on
BoxSecretboxKey(key, sk) ==
    key

\* (mutant) the long-term secret key is handed on instead of the derived key
OpenSecretboxKey_sk(key, sk) ==
    sk

\* crypto_secretbox_open(ciphertext, nonce, &key): the key crypto_box_open hands on
OpenSecretboxKey(key, sk) ==
    key

\* crypto_box_beforenm(pk, sk) as a function of its arguments (both 32 bytes)
crypto_box_beforenm(pk, sk) ==
    hsalsa20(curve25519(sk, pk), [i \in 1..16 |-> 0])

----------------------------------------------------------------------------
(* The inputs of the model *)

Threads == {1, 2}

Running == {t \in Threads : t <= nthreads}

\* With two threads running, the inputs are the valid ones of fewer seeds.
Concurrent == nthreads > 1

SecretKeys ==
    {Fill(32, s) : s \in 1..NumSeeds}

\* a secret-key argument: a key, or a buffer one byte short
SecretKeyArgs ==
    IF Concurrent THEN SecretKeys ELSE SecretKeys \cup {Fill(31, 1)}

\* the public keys of the secret keys
PublicKeys ==
    {curve25519_base(k) : k \in SecretKeys}

\* a public-key argument: the public key of a secret key, a point that is
\* nobody's public key here, or a buffer one byte long
PublicKeyArgs ==
    IF Concurrent THEN PublicKeys ELSE PublicKeys \cup {Fill(32, 9), Fill(33, 1)}

\* a nonce argument: one of two nonces, or a buffer one byte short.  Under the
\* second nonce one session key of the model gives the authenticator the
\* degenerate one-time key r = 0.
NonceArgs ==
    IF Concurrent THEN {Fill(24, 5)} ELSE {Fill(24, 5), Fill(24, 15), Fill(23, 5)}

Messages ==
    IF Concurrent THEN {Fill(1, 3)} ELSE {Fill(n, 3) : n \in 0..MaxMsgLen}

SymKeyArgs ==
    IF Concurrent THEN {Fill(32, 21)}
    ELSE {Fill(32, 20 + s) : s \in 1..NumSeeds} \cup {Fill(31, 21)}

KeypairBuffers ==
    IF Concurrent THEN {Fill(32, 0)} ELSE {Fill(32, 0), Fill(31, 0)}

\* Ciphertexts that no call produced: too short, or of full length.
ForeignCiphertexts ==
    IF Concurrent THEN {Fill(15, 7)}
    ELSE {Fill(0, 7), Fill(15, 7), Fill(16, 7), Fill(17, 7)}

\* What may happen to a ciphertext between the call that made it and the call
\* that opens it: nothing, a change of a tag byte, a flip of a payload bit, or
\* the loss of all but its first 15 bytes.
Tampers(c) ==
    IF Concurrent THEN {[kind |-> "none", pos |-> 0, mask |-> 0]}
    ELSE {[kind |-> "none", pos |-> 0, mask |-> 0],
          [kind |-> "tag", pos |-> 1, mask |-> 1],
          [kind |-> "tag", pos |-> 16, mask |-> 128],
          [kind |-> "tag", pos |-> 8, mask |-> 255],
          [kind |-> "truncate", pos |-> 15, mask |-> 0]}
         \cup {[kind |-> "payload", pos |-> p, mask |-> m] :
                  p \in {17, Len(c)} \cap (17..Len(c)), m \in {1, 128}}

Tamper(c, tm) ==
    CASE tm.kind = "none"     -> c
      [] tm.kind = "truncate" -> SubSeq(c, 1, tm.pos)
      [] OTHER                -> [c EXCEPT ![tm.pos] = Xor(c[tm.pos], tm.mask)]

NoArgs ==
    [fn |-> "none", msg |-> <<>>, ciphertext |-> <<>>, nonce |-> <<>>,
     pk |-> <<>>, sk |-> <<>>, key |-> <<>>]

NoLocals ==
    [sk_buf |-> <<>>, random |-> <<>>, curve_key |-> <<>>, key |-> <<>>,
     sb_key |-> <<>>, ks |-> <<>>]

NoRet ==
    [kind |-> "none", val |-> <<>>]

NoProv ==
    [from |-> "none", args |-> NoArgs, tamper |-> [kind |-> "none", pos |-> 0, mask |-> 0]]

\* A thread may start a call when it is not inside one.
Free(t) ==
    /\ t \in Running
    /\ pc[t] = "idle"

\* A thread whose call has returned a value may pass it to its next call.
Returned(t, fn, kind) ==
    /\ t \in Running
    /\ pc[t] = "done"
    /\ call[t].fn = fn
    /\ ret[t].kind = kind

Begin(t, args, where, from) ==
    /\ call' = [call EXCEPT ![t] = args]
    /\ pc' = [pc EXCEPT ![t] = where]
    /\ loc' = [loc EXCEPT ![t] =
                [NoLocals EXCEPT !.sk_buf = IF args.fn = "keypair" THEN args.sk ELSE <<>>]]
    /\ ret' = [ret EXCEPT ![t] = NoRet]
    /\ trace' = [trace EXCEPT ![t] = <<>>]
    /\ prov' = [prov EXCEPT ![t] = from]
    /\ UNCHANGED <<ZERO_HSALSA_NONCE, nthreads>>

\* A failed assert!: the call unwinds and returns nothing.
Panic(t, event) ==
    /\ pc' = [pc EXCEPT ![t] = "panicked"]
    /\ ret' = [ret EXCEPT ![t] = [kind |-> "panic", val |-> <<>>]]
    /\ trace' = [trace EXCEPT ![t] = Append(@, event)]
    /\ UNCHANGED <<ZERO_HSALSA_NONCE, nthreads, call, loc, prov>>

\* The ciphertexts thread t may pass to fn's opening function: a foreign one,
\* or the one its own call of fn has just returned, after the network.
OpenInputs(t, fn) ==
    IF Free(t)
    THEN {[c |-> x, from |-> NoProv] : x \in ForeignCiphertexts}
    ELSE IF Returned(t, fn, "Ok")
    THEN {[c |-> Tamper(ret[t].val, tm),
           from |-> [from |-> fn, args |-> call[t], tamper |-> tm]] :
              tm \in Tampers(ret[t].val)}
    ELSE {}

\* The keys thread t may pass to crypto_secretbox: a symmetric key, or the key
\* its own call of crypto_box_beforenm has just returned.
KeyInputs(t) ==
    IF Free(t)
    THEN {[k |-> x, from |-> NoProv] : x \in SymKeyArgs}
    ELSE IF Returned(t, "beforenm", "key")
    THEN {[k |-> ret[t].val, from |-> [NoProv EXCEPT !.from = "beforenm", !.args = call[t]]]}
    ELSE {}

----------------------------------------------------------------------------
(* The calls *)

Call_keypair(t) ==
    /\ Free(t)
    /\ \E buf \in KeypairBuffers :
          Begin(t, [NoArgs EXCEPT !.fn = "keypair", !.sk = buf], "keypair_assert", NoProv)

Call_beforenm(t) ==
    /\ Free(t)
    /\ \E pk \in PublicKeyArgs, sk \in SecretKeyArgs :
          Begin(t, [NoArgs EXCEPT !.fn = "beforenm", !.pk = pk, !.sk = sk],
                "beforenm_assert", NoProv)

Call_box(t) ==
    /\ Free(t)
    /\ \E m \in Messages, n \in NonceArgs, pk \in PublicKeyArgs, sk \in SecretKeyArgs :
          Begin(t, [NoArgs EXCEPT !.fn = "box", !.msg = m, !.nonce = n, !.pk = pk, !.sk = sk],
                "box_assert", NoProv)

\* The keys passed to crypto_box_open with the ciphertext of origin from: any,
\* or, with two threads running, the sender's public key and a receiver's
\* secret key.
OpenKeyArgs(from) ==
    IF Concurrent /\ from.from = "box"
    THEN {<<curve25519_base(from.args.sk), sk>> : sk \in SecretKeys}
    ELSE PublicKeyArgs \X SecretKeyArgs

Call_box_open(t) ==
    /\ t \in Running
    /\ \E in \in OpenInputs(t, "box"), n \in NonceArgs :
          \E k \in OpenKeyArgs(in.from) :
              Begin(t, [NoArgs EXCEPT !.fn = "box_open", !.ciphertext = in.c, !.nonce = n,
                                      !.pk = k[1], !.sk = k[2]],
                    "box_assert", in.from)

Call_secretbox(t) ==
    /\ t \in Running
    /\ \E m \in Messages, n \in NonceArgs, in \in KeyInputs(t) :
          Begin(t, [NoArgs EXCEPT !.fn = "secretbox", !.msg = m, !.nonce = n, !.key = in.k],
                "secretbox_enter", in.from)

Call_secretbox_open(t) ==
    /\ t \in Running
    /\ \E in \in OpenInputs(t, "secretbox"), n \in NonceArgs, k \in SymKeyArgs :
          Begin(t, [NoArgs EXCEPT !.fn = "secretbox_open", !.ciphertext = in.c,
                                  !.nonce = n, !.key = k],
                "secretbox_enter", in.from)

\* The caller drops what its last call returned (or the panic it caught).
Forget(t) ==
    /\ t \in Running
    /\ pc[t] \in {"done", "panicked"}
    /\ pc' = [pc EXCEPT ![t] = "idle"]
    /\ call' = [call EXCEPT ![t] = NoArgs]
    /\ loc' = [loc EXCEPT ![t] = NoLocals]
    /\ ret' = [ret EXCEPT ![t] = NoRet]
    /\ trace' = [trace EXCEPT ![t] = <<>>]
    /\ prov' = [prov EXCEPT ![t] = NoProv]
    /\ UNCHANGED <<ZERO_HSALSA_NONCE, nthreads>>

----------------------------------------------------------------------------
(* crypto_box_keypair *)

\* assert!(sk.len() == crypto_box_PUBLICKEYBYTES)
KeypairAssert(t) ==
    /\ t \in Running
    /\ pc[t] = "keypair_assert"
    /\ IF KeypairLenOk(call[t].sk)
       THEN /\ pc' = [pc EXCEPT ![t] = "keypair_rng"]
            /\ trace' = [trace EXCEPT ![t] = Append(@, "assert_sk")]
            /\ UNCHANGED <<ZERO_HSALSA_NONCE, nthreads, call, loc, ret, prov>>
       ELSE Panic(t, "assert_sk")

\* rng.fill_bytes(sk)
KeypairRng(t) ==
    /\ t \in Running
    /\ pc[t] = "keypair_rng"
    /\ \E r \in OsRngOutputs :
          loc' = [loc EXCEPT ![t].sk_buf = r, ![t].random = r]
    /\ pc' = [pc EXCEPT ![t] = "keypair_hash"]
    /\ trace' = [trace EXCEPT ![t] = Append(@, "fill_bytes")]
    /\ UNCHANGED <<ZERO_HSALSA_NONCE, nthreads, call, ret, prov>>

\* sh.input(sk); sh.result(sk)
KeypairHash(t) ==
    /\ t \in Running
    /\ pc[t] = "keypair_hash"
    /\ loc' = [loc EXCEPT ![t].sk_buf = KeypairSecret(loc[t].sk_buf)]
    /\ pc' = [pc EXCEPT ![t] = "keypair_base"]
    /\ trace' = [trace EXCEPT ![t] = Append(@, "sha512_256")]
    /\ UNCHANGED <<ZERO_HSALSA_NONCE, nthreads, call, ret, prov>>

\* curve25519_base(sk)
KeypairBase(t) ==
    /\ t \in Running
    /\ pc[t] = "keypair_base"
    /\ ret' = [ret EXCEPT ![t] = [kind |-> "pk", val |-> curve25519_base(loc[t].sk_buf)]]
    /\ pc' = [pc EXCEPT ![t] = "done"]
    /\ trace' = [trace EXCEPT ![t] = Append(@, "curve25519_base")]
    /\ UNCHANGED <<ZERO_HSALSA_NONCE, nthreads, call, loc, prov>>

----------------------------------------------------------------------------
(* crypto_box, crypto_box_open and crypto_box_beforenm *)

\* assert!(nonce.len() == crypto_box_NONCEBYTES), then crypto_box_beforenm is called
BoxAssert(t) ==
    /\ t \in Running
    /\ pc[t] = "box_assert"
    /\ IF BoxNonceOk(call[t].nonce)
       THEN /\ pc' = [pc EXCEPT ![t] = "beforenm_assert"]
            /\ trace' = [trace EXCEPT ![t] = Append(@, "assert_nonce")]
            /\ UNCHANGED <<ZERO_HSALSA_NONCE, nthreads, call, loc, ret, prov>>
       ELSE Panic(t, "assert_nonce")

\* assert!(pk.len() == ...); assert!(sk.len() == ...)
BeforenmAssert(t) ==
    /\ t \in Running
    /\ pc[t] = "beforenm_assert"
    /\ IF BeforenmLenOk(call[t].pk, call[t].sk)
       THEN /\ pc' = [pc EXCEPT ![t] = "beforenm_curve"]
            /\ trace' = [trace EXCEPT ![t] = Append(@, "assert_pk_sk")]
            /\ UNCHANGED <<ZERO_HSALSA_NONCE, nthreads, call, loc, ret, prov>>
       ELSE Panic(t, "assert_pk_sk")

\* let curve_key = curve25519(sk, pk)
BeforenmCurve(t) ==
    /\ t \in Running
    /\ pc[t] = "beforenm_curve"
    /\ loc' = [loc EXCEPT ![t].curve_key = BeforenmCurveKey(call[t].pk, call[t].sk)]
    /\ pc' = [pc EXCEPT ![t] = "beforenm_hsalsa"]
    /\ trace' = [trace EXCEPT ![t] = Append(@, "curve25519")]
    /\ UNCHANGED <<ZERO_HSALSA_NONCE, nthreads, call, ret, prov>>

\* let mut key = [0u8; 32]; hsalsa20(&curve_key, &ZERO_HSALSA_NONCE, &mut key)
BeforenmHsalsa(t) ==
    /\ t \in Running
    /\ pc[t] = "beforenm_hsalsa"
    /\ loc' = StoreKey(loc, t, BeforenmKey(loc[t].curve_key, ZERO_HSALSA_NONCE))
    /\ pc' = [pc EXCEPT ![t] = "beforenm_return"]
    /\ trace' = [trace EXCEPT ![t] = Append(@, "hsalsa20")]
    /\ UNCHANGED <<ZERO_HSALSA_NONCE, nthreads, call, ret, prov>>

\* key: crypto_box_beforenm returns, to its caller or into crypto_box and
\* crypto_box_open, which hand the key on to crypto_secretbox(_open)
BeforenmReturn(t) ==
    /\ t \in Running
    /\ pc[t] = "beforenm_return"
    /\ CASE call[t].fn = "beforenm" ->
              /\ ret' = [ret EXCEPT ![t] = [kind |-> "key", val |-> loc[t].key]]
              /\ pc' = [pc EXCEPT ![t] = "done"]
              /\ loc' = loc
         [] call[t].fn = "box" ->
              /\ loc' = [loc EXCEPT ![t].sb_key = BoxSecretboxKey(loc[t].key, call[t].sk)]
              /\ pc' = [pc EXCEPT ![t] = "secretbox_enter"]
              /\ ret' = ret
         [] OTHER ->
              /\ loc' = [loc EXCEPT ![t].sb_key = OpenSecretboxKey(loc[t].key, call[t].sk)]
              /\ pc' = [pc EXCEPT ![t] = "secretbox_enter"]
              /\ ret' = ret
    /\ UNCHANGED <<ZERO_HSALSA_NONCE, nthreads, call, trace, prov>>

----------------------------------------------------------------------------
(* crypto_secretbox and crypto_secretbox_open *)

Sealing(t) ==
    call[t].fn \in {"box", "secretbox"}

\* the key the secretbox function was given
SbKey(t) ==
    IF call[t].fn \in {"box", "box_open"} THEN loc[t].sb_key ELSE call[t].key

\* The size checks on key and nonce; then, when opening, a ciphertext shorter
\* than the overhead is rejected at once.
SecretboxEnter(t) ==
    /\ t \in Running
    /\ pc[t] = "secretbox_enter"
    /\ IF ~(/\ Len(SbKey(t)) = crypto_secretbox_KEYBYTES
            /\ Len(call[t].nonce) = crypto_secretbox_NONCEBYTES)
       THEN Panic(t, "assert_key_nonce")
       ELSE /\ IF ~Sealing(t) /\ Len(call[t].ciphertext) < crypto_secretbox_OVERHEAD
               THEN /\ ret' = [ret EXCEPT ![t] = Err]
                    /\ pc' = [pc EXCEPT ![t] = "done"]
                    /\ trace' = [trace EXCEPT ![t] = @ \o <<"assert_key_nonce", "too_short">>]
               ELSE /\ ret' = ret
                    /\ pc' = [pc EXCEPT ![t] = "secretbox_stream"]
                    /\ trace' = [trace EXCEPT ![t] = Append(@, "assert_key_nonce")]
            /\ UNCHANGED <<ZERO_HSALSA_NONCE, nthreads, call, loc, prov>>

\* the keystream of 32 + len bytes
SecretboxStream(t) ==
    /\ t \in Running
    /\ pc[t] = "secretbox_stream"
    /\ LET n == IF Sealing(t) THEN Len(call[t].msg)
                ELSE Len(call[t].ciphertext) - crypto_secretbox_OVERHEAD
       IN  loc' = [loc EXCEPT ![t].ks = Keystream(SbKey(t), call[t].nonce, 32 + n)]
    /\ pc' = [pc EXCEPT ![t] = IF Sealing(t) THEN "secretbox_seal" ELSE "secretbox_verify"]
    /\ trace' = [trace EXCEPT ![t] = Append(@, "keystream")]
    /\ UNCHANGED <<ZERO_HSALSA_NONCE, nthreads, call, ret, prov>>

\* encrypt, authenticate the encrypted payload, return tag || payload
SecretboxSeal(t) ==
    /\ t \in Running
    /\ pc[t] = "secretbox_seal"
    /\ LET c == XorStream(call[t].msg, loc[t].ks)
       IN  ret' = [ret EXCEPT ![t] =
                     IF call[t].fn = "box"
                     THEN [kind |-> "Ok", val |-> Poly1305(SubSeq(loc[t].ks, 1, 32), c) \o c]
                     ELSE Ok(Poly1305(SubSeq(loc[t].ks, 1, 32), c) \o c)]
    /\ pc' = [pc EXCEPT ![t] = "done"]
    /\ trace' = [trace EXCEPT ![t] = @ \o <<"xor", "poly1305">>]
    /\ UNCHANGED <<ZERO_HSALSA_NONCE, nthreads, call, loc, prov>>

\* recompute the tag over the payload, compare, and decrypt only on a match
SecretboxVerify(t) ==
    /\ t \in Running
    /\ pc[t] = "secretbox_verify"
    /\ LET c       == call[t].ciphertext
           payload == SubSeq(c, crypto_secretbox_OVERHEAD + 1, Len(c))
           tag     == Poly1305(SubSeq(loc[t].ks, 1, 32), payload)
       IN  IF ConstantTimeEq(tag, SubSeq(c, 1, crypto_secretbox_OVERHEAD))
           THEN /\ ret' = [ret EXCEPT ![t] = Ok(XorStream(payload, loc[t].ks))]
                /\ trace' = [trace EXCEPT ![t] = @ \o <<"poly1305", "verify", "xor">>]
           ELSE /\ ret' = [ret EXCEPT ![t] = Err]
                /\ trace' = [trace EXCEPT ![t] = @ \o <<"poly1305", "verify">>]
    /\ pc' = [pc EXCEPT ![t] = "done"]
    /\ UNCHANGED <<ZERO_HSALSA_NONCE, nthreads, call, loc, prov>>

----------------------------------------------------------------------------
(* The specifications *)

InitThreads(n) ==
    /\ ZERO_HSALSA_NONCE = [i \in 1..16 |-> 0]
    /\ nthreads = n
    /\ pc = [t \in Threads |-> "idle"]
    /\ call = [t \in Threads |-> NoArgs]
    /\ loc = [t \in Threads |-> NoLocals]
    /\ ret = [t \in Threads |-> NoRet]
    /\ trace = [t \in Threads |-> <<>>]
    /\ prov = [t \in Threads |-> NoProv]

\* one thread, calling one function after the other
Init ==
    InitThreads(1)

\* two threads, each calling one function after the other
InitConcurrent ==
    InitThreads(2)

Next ==
    \E t \in Threads :
        \/ Call_keypair(t)
        \/ Call_beforenm(t)
        \/ Call_box(t)
        \/ Call_box_open(t)
        \/ Call_secretbox(t)
        \/ Call_secretbox_open(t)
        \/ Forget(t)
        \/ KeypairAssert(t)
        \/ KeypairRng(t)
        \/ KeypairHash(t)
        \/ KeypairBase(t)
        \/ BoxAssert(t)
        \/ BeforenmAssert(t)
        \/ BeforenmCurve(t)
        \/ BeforenmHsalsa(t)
        \/ BeforenmReturn(t)
        \/ SecretboxEnter(t)
        \/ SecretboxStream(t)
        \/ SecretboxSeal(t)
        \/ SecretboxVerify(t)

Spec ==
    Init /\ [][Next]_vars

SpecConcurrent ==
    InitConcurrent /\ [][Next]_vars

----------------------------------------------------------------------------
(* What the claims speak of *)

Zero16 ==
    [i \in 1..16 |-> 0]

\* pk is the public key of sk
IsKeypair(pk, sk) ==
    /\ Len(sk) = 32
    /\ pk = curve25519_base(sk)

\* the sizes crypto_box and crypto_box_open ask of nonce, pk and sk
BoxSizesOk(a) ==
    /\ Len(a.nonce) = 24
    /\ Len(a.pk) = 32
    /\ Len(a.sk) = 32

\* thread t has opened, with nonce and keys of the right sizes, the ciphertext
\* that its call of crypto_box returned
OpenedOwnBox(t) ==
    /\ pc[t] = "done"
    /\ call[t].fn = "box_open"
    /\ prov[t].from = "box"

----------------------------------------------------------------------------
(* C1 *)

\* C1: a ciphertext made by crypto_box(m, n, B_pk, A_sk) and opened, untouched,
\* by crypto_box_open(c, n, A_pk, B_sk), with A_pk and B_pk the public keys of
\* A_sk and B_sk, gives Ok(m).
C1_BoxRoundTrip ==
    \A t \in Threads :
        (/\ OpenedOwnBox(t)
         /\ prov[t].tamper.kind = "none"
         /\ call[t].nonce = prov[t].args.nonce
         /\ IsKeypair(call[t].pk, prov[t].args.sk)
         /\ IsKeypair(prov[t].args.pk, call[t].sk))
            => ret[t] = Ok(prov[t].args.msg)

C1_Witness ==
    \E t \in Threads :
        /\ OpenedOwnBox(t)
        /\ prov[t].tamper.kind = "none"
        /\ call[t].nonce = prov[t].args.nonce
        /\ IsKeypair(call[t].pk, prov[t].args.sk)
        /\ IsKeypair(prov[t].args.pk, call[t].sk)
        /\ call[t].sk # prov[t].args.sk
        /\ Len(prov[t].args.msg) > 0
        /\ ret[t] = Ok(prov[t].args.msg)

----------------------------------------------------------------------------
(* C10 *)

\* C10: a ciphertext made by crypto_box(m, n, pk, sk) and opened, untouched, by
\* crypto_box_open with the very same n, pk and sk gives Ok(m), whether or not
\* pk is the public key of sk.
C10_SameArgsOpen ==
    \A t \in Threads :
        (/\ OpenedOwnBox(t)
         /\ prov[t].tamper.kind = "none"
         /\ call[t].nonce = prov[t].args.nonce
         /\ call[t].pk = prov[t].args.pk
         /\ call[t].sk = prov[t].args.sk)
            => ret[t] = Ok(prov[t].args.msg)

C10_Witness ==
    \E t \in Threads :
        /\ OpenedOwnBox(t)
        /\ prov[t].tamper.kind = "none"
        /\ call[t].nonce = prov[t].args.nonce
        /\ call[t].pk = prov[t].args.pk
        /\ call[t].sk = prov[t].args.sk
        /\ ~IsKeypair(call[t].pk, call[t].sk)
        /\ \A k \in SecretKeys : ~IsKeypair(call[t].pk, k)
        /\ Len(prov[t].args.msg) > 0
        /\ ret[t] = Ok(prov[t].args.msg)

----------------------------------------------------------------------------
(* C2 *)

\* threads t and u have each completed crypto_box_beforenm, each with its own
\* secret key and the public key of the other's
Agreed(t, u) ==
    /\ pc[t] = "done" /\ call[t].fn = "beforenm"
    /\ pc[u] = "done" /\ call[u].fn = "beforenm"
    /\ IsKeypair(call[t].pk, call[u].sk)
    /\ IsKeypair(call[u].pk, call[t].sk)

\* C2: when two parties each call crypto_box_beforenm with their own secret key
\* and the other's public key, both calls return the same 32-byte key.
C2_AgreementSymmetry ==
    \A t, u \in Threads :
        Agreed(t, u) =>
            /\ ret[t].kind = "key" /\ ret[u].kind = "key"
            /\ Len(ret[t].val) = 32
            /\ ret[t].val = ret[u].val

C2_Witness ==
    \E t, u \in Threads :
        /\ Agreed(t, u)
        /\ call[t].sk # call[u].sk
        /\ call[t].pk # call[u].pk
        /\ ret[t].val = ret[u].val

----------------------------------------------------------------------------
(* C3 *)

\* C3: crypto_box(m, n, pk, sk) returns what crypto_secretbox(m, n, k) returns
\* and crypto_box_open(c, n, pk, sk) returns what crypto_secretbox_open(c, n, k)
\* returns, Ok or Err alike, for k = crypto_box_beforenm(pk, sk); and
\* crypto_secretbox called with the key a crypto_box_beforenm(pk, sk) call
\* returned returns the same as crypto_box(m, n, pk, sk).
C3_PrecomputationEquivalence ==
    \A t \in Threads :
        pc[t] = "done" =>
            /\ call[t].fn = "box" =>
                  ret[t] = Ok(crypto_secretbox(call[t].msg, call[t].nonce,
                                   crypto_box_beforenm(call[t].pk, call[t].sk)))
            /\ call[t].fn = "box_open" =>
                  ret[t] = crypto_secretbox_open(call[t].ciphertext, call[t].nonce,
                                   crypto_box_beforenm(call[t].pk, call[t].sk))
            /\ (call[t].fn = "secretbox" /\ prov[t].from = "beforenm") =>
                  ret[t] = Ok(crypto_secretbox(call[t].msg, call[t].nonce,
                                   crypto_box_beforenm(prov[t].args.pk, prov[t].args.sk)))

C3_Witness ==
    \E t \in Threads :
        /\ pc[t] = "done"
        /\ call[t].fn = "box_open"
        /\ ret[t].kind = "Ok"
        /\ Len(ret[t].val) > 0
        /\ ret[t] = crypto_secretbox_open(call[t].ciphertext, call[t].nonce,
                         crypto_box_beforenm(call[t].pk, call[t].sk))

----------------------------------------------------------------------------
(* C4 *)

\* C4: the overhead is 16 bytes; every ciphertext crypto_box or
\* crypto_secretbox returns is that much longer than the message (16 bytes for
\* the empty message), and every plaintext crypto_box_open or
\* crypto_secretbox_open returns is that much shorter than the ciphertext.
C4_LengthInvariant ==
    \A t \in Threads :
        pc[t] = "done" =>
            /\ call[t].fn \in {"box", "secretbox"} =>
                  /\ ret[t].kind = "Ok"
                  /\ Len(ret[t].val) = Len(call[t].msg) + crypto_box_OVERHEAD
                  /\ call[t].msg = <<>> => Len(ret[t].val) = 16
            /\ (call[t].fn \in {"box_open", "secretbox_open"} /\ ret[t].kind = "Ok") =>
                  Len(ret[t].val) = Len(call[t].ciphertext) - crypto_box_OVERHEAD

C4_Witness ==
    \E t \in Threads :
        /\ pc[t] = "done"
        /\ call[t].fn = "box"
        /\ call[t].msg = <<>>
        /\ ret[t].kind = "Ok"
        /\ Len(ret[t].val) = 16

----------------------------------------------------------------------------
(* C5 *)

\* thread t has opened, with the nonce and the keys of the sealing call (the
\* sender's own pk and sk, or the receiver's counterparts of them), a
\* ciphertext that one of its sealing calls returned
OpenedSameKeys(t) ==
    /\ pc[t] = "done"
    /\ call[t].nonce = prov[t].args.nonce
    /\ \/ /\ call[t].fn = "box_open" /\ prov[t].from = "box"
          /\ \/ /\ call[t].pk = prov[t].args.pk
                /\ call[t].sk = prov[t].args.sk
             \/ /\ IsKeypair(call[t].pk, prov[t].args.sk)
                /\ IsKeypair(prov[t].args.pk, call[t].sk)
       \/ /\ call[t].fn = "secretbox_open" /\ prov[t].from = "secretbox"
          /\ call[t].key = prov[t].args.key

\* the key of the secretbox the call of thread t went through
SessionKey(t) ==
    IF call[t].fn = "box_open"
    THEN crypto_box_beforenm(call[t].pk, call[t].sk)
    ELSE call[t].key

\* the authenticator of the payload thread t was given, under its one-time key
PayloadTag(t) ==
    LET c  == call[t].ciphertext
        ks == Keystream(SessionKey(t), call[t].nonce, 32)
    IN  Poly1305(ks, SubSeq(c, 17, Len(c)))

----------------------------------------------------------------------------
(* C6 *)

\* the call of thread t opens a ciphertext of fewer than 16 bytes, with nonce
\* and keys of the right sizes, and is over
OpenedShort(t) ==
    /\ pc[t] \in {"done", "panicked"}
    /\ Len(call[t].ciphertext) < 16
    /\ \/ call[t].fn = "box_open" /\ BoxSizesOk(call[t])
       \/ /\ call[t].fn = "secretbox_open"
          /\ Len(call[t].key) = 32
          /\ Len(call[t].nonce) = 24

Did(t, event) ==
    \E i \in 1..Len(trace[t]) : trace[t][i] = event

\* C6 as stated: a ciphertext of fewer than 16 bytes yields Err, not a panic,
\* before any keystream generation and before any computation on a secret,
\* the scalar multiplication and the subkey derivation of crypto_box_open
\* included.
C6_ShortRejectedBeforeAnyComputation ==
    \A t \in Threads :
        OpenedShort(t) =>
            /\ pc[t] = "done"
            /\ ret[t] = Err
            /\ ~Did(t, "keystream")
            /\ ~Did(t, "curve25519")
            /\ ~Did(t, "hsalsa20")

\* C6 as amended: a ciphertext of fewer than 16 bytes yields Err, not a panic,
\* before any keystream generation, authentication or decryption;
\* crypto_secretbox_open has then computed nothing but its size checks, while
\* crypto_box_open has first derived the session key (the scalar multiplication
\* and the subkey derivation of crypto_box_beforenm), and only then met the
\* length check.
C6_ShortRejectedBeforeKeystream ==
    \A t \in Threads :
        OpenedShort(t) =>
            /\ pc[t] = "done"
            /\ ret[t] = Err
            /\ ~Did(t, "keystream") /\ ~Did(t, "poly1305") /\ ~Did(t, "xor")
            /\ call[t].fn = "secretbox_open" =>
                  trace[t] = <<"assert_key_nonce", "too_short">>
            /\ call[t].fn = "box_open" =>
                  /\ trace[t] = <<"assert_nonce", "assert_pk_sk", "curve25519", "hsalsa20",
                                  "assert_key_nonce", "too_short">>
                  /\ loc[t].key = crypto_box_beforenm(call[t].pk, call[t].sk)

C6_Witness ==
    \E t \in Threads :
        /\ OpenedShort(t)
        /\ call[t].fn = "box_open"
        /\ Len(call[t].ciphertext) = 15
        /\ ret[t] = Err
        /\ Did(t, "curve25519")

----------------------------------------------------------------------------
(* C7 *)

\* the call of thread t was given a buffer of the wrong size
Misused(t) ==
    \/ /\ call[t].fn = "beforenm"
       /\ (Len(call[t].pk) # 32 \/ Len(call[t].sk) # 32)
    \/ /\ call[t].fn \in {"box", "box_open"}
       /\ (Len(call[t].nonce) # 24 \/ Len(call[t].pk) # 32 \/ Len(call[t].sk) # 32)
    \/ /\ call[t].fn = "keypair"
       /\ Len(call[t].sk) # 32

\* C7: a call of crypto_box_beforenm, crypto_box, crypto_box_open or
\* crypto_box_keypair with a buffer of the wrong size never returns anything:
\* it ends in a panic, whatever the message or ciphertext, and the buffer of
\* crypto_box_keypair is left as it was.
C7_MisuseIsFatal ==
    \A t \in Threads :
        Misused(t) =>
            /\ pc[t] # "done"
            /\ ret[t].kind \in {"none", "panic"}
            /\ ret[t].val = <<>>
            /\ call[t].fn = "keypair" => loc[t].sk_buf = call[t].sk
            /\ ~Did(t, "keystream")

C7_Witness ==
    \E t \in Threads :
        /\ Misused(t)
        /\ pc[t] = "panicked"
        /\ call[t].fn = "box_open"
        /\ Len(call[t].nonce) = 24
        /\ Len(call[t].sk) # 32
        /\ Len(call[t].ciphertext) < 16
        /\ ret[t].kind = "panic"

----------------------------------------------------------------------------
(* C8 *)

\* C8: when crypto_box_keypair returns, the caller's 32-byte buffer holds the
\* truncated hash of the bytes drawn from the entropy source, not those bytes,
\* and the 32-byte public key returned is the base-point multiple of the
\* buffer's content.
C8_KeypairConsistency ==
    \A t \in Threads :
        (pc[t] = "done" /\ call[t].fn = "keypair") =>
            /\ loc[t].random \in OsRngOutputs
            /\ loc[t].sk_buf = Sha512Trunc256(loc[t].random)
            /\ loc[t].sk_buf # loc[t].random
            /\ Len(loc[t].sk_buf) = 32
            /\ ret[t].kind = "pk"
            /\ Len(ret[t].val) = 32
            /\ IsKeypair(ret[t].val, loc[t].sk_buf)

C8_Witness ==
    \E t \in Threads :
        /\ pc[t] = "done"
        /\ call[t].fn = "keypair"
        /\ ret[t].kind = "pk"
        /\ IsKeypair(ret[t].val, loc[t].sk_buf)

----------------------------------------------------------------------------
(* C9 *)

\* what a call with arguments a returns when it runs alone
Alone(a) ==
    CASE a.fn = "beforenm" -> [kind |-> "key", val |-> crypto_box_beforenm(a.pk, a.sk)]
      [] a.fn = "box" ->
            Ok(crypto_secretbox(a.msg, a.nonce, crypto_box_beforenm(a.pk, a.sk)))
      [] a.fn = "box_open" ->
            crypto_secretbox_open(a.ciphertext, a.nonce, crypto_box_beforenm(a.pk, a.sk))
      [] a.fn = "secretbox" -> Ok(crypto_secretbox(a.msg, a.nonce, a.key))
      [] OTHER -> crypto_secretbox_open(a.ciphertext, a.nonce, a.key)

\* C9: whatever the other thread does meanwhile, a call returns what it
\* returns when run alone on the same arguments, so two calls with the same
\* arguments return the same; and ZERO_HSALSA_NONCE stays 16 zero bytes.
C9_StatelessDeterministic ==
    /\ ZERO_HSALSA_NONCE = Zero16
    /\ \A t \in Threads :
          (pc[t] = "done" /\ call[t].fn # "keypair") => ret[t] = Alone(call[t])
    /\ \A t, u \in Threads :
          (/\ pc[t] = "done" /\ pc[u] = "done"
           /\ call[t].fn # "keypair"
           /\ call[t] = call[u]) => ret[t] = ret[u]

C9_Witness ==
    \E t, u \in Threads :
        /\ t # u
        /\ pc[t] = "done" /\ pc[u] = "done"
        /\ call[t].fn = "box" /\ call[u].fn = "box_open"
        /\ call[t].sk # call[u].sk
        /\ Did(t, "hsalsa20") /\ Did(u, "hsalsa20")
        /\ ret[u].kind = "Ok"

====
